---- MODULE Spec2Model ----
(***************************************************************************)
(* Model of the fees-ssl-bot backend.                                      *)
(*                                                                         *)
(* Two server programs exist in the repository:                            *)
(*   - the hosted-database server (src/unnamed/part_000): one JSON         *)
(*     document in the single row app_state[STATE_ID], a backups table,    *)
(*     settings endpoints and a single-provider chat endpoint;             *)
(*   - the file server (src/server.js): data.json, archive.json, a         *)
(*     backups directory, no-op settings endpoints and the chat endpoint   *)
(*     with the OpenAI -> Gemini fallback.                                 *)
(*                                                                         *)
(* Specifications:                                                         *)
(*   Spec         hosted server, document endpoints, requests interleaved  *)
(*                at their awaits (select, seeding upsert, saving upsert)  *)
(*   SpecArchive  hosted server, POST /api/archive/student requests only   *)
(*   SpecStore    loadState / saveState called back to back                *)
(*   SpecFile     file server: data, archive and backup endpoints          *)
(*   SpecChat     POST /api/chat of both servers                           *)
(***************************************************************************)
EXTENDS Integers, Sequences, FiniteSets, TLC

VARIABLES
  configured,   \* part_000: supabase client exists (supabase !== null)
  db,           \* part_000: the app_state row of STATE_ID: [exists, data]
  backups,      \* part_000: rows of the backups table, row id = position
  reqs,         \* part_000: the requests in flight, one record per slot
  clock,        \* server.js: the wall clock read by new Date()
  issued,       \* number of requests started so far
  rt,           \* SpecStore: one saveState(d); loadState() run
  files,        \* server.js: data.json, archive.json and the backups directory
  fsLast,       \* server.js: the last request answered and its response
  chat          \* POST /api/chat: the request in progress and its response

vars == <<configured, db, backups, reqs, clock, issued, rt, files, fsLast, chat>>

----------------------------------------------------------------------------
(* Bounds of the model *)

MaxId == 2          \* student ids are 1..MaxId; 0 is the falsy studentId
MaxLen == 2         \* longest list a client posts
MaxClock == 2       \* hosted server: new Date() returns 1..MaxClock
MaxRequests == 2    \* requests started in one behaviour
MaxInFlight == 2    \* requests in flight at once
MaxTicks == 3       \* file server: clock values are 1..MaxTicks
TicksPerSecond == 2 \* file server: clock values in one second of the clock
MaxText == 2        \* longest text a provider returns, in characters
MaxHistory == 1     \* longest history a chat request carries, in entries

Ids == 1..MaxId
Slots == 1..MaxInFlight

----------------------------------------------------------------------------
(* JSON values *)

EmptyMap == [k \in {} |-> ""]

\* JavaScript truthiness of the string values the model uses
Truthy(v) == v # ""

\* { ...a, ...b }
Merge(a, b) ==
  [k \in (DOMAIN a) \cup (DOMAIN b) |-> IF k \in DOMAIN b THEN b[k] ELSE a[k]]

\* delete m[key]
Delete(m, key) == [k \in (DOMAIN m) \ {key} |-> m[k]]

\* a student as a client posts it: an opaque record with an id
NewStudents == {[id |-> i] : i \in Ids}

\* all sequences over S of length at most n
SeqsUpTo(S, n) == UNION {[1..k -> S] : k \in 0..n}

\* array.splice(idx, 1)
RemoveAt(s, idx) == [k \in 1..(Len(s) - 1) |-> IF k < idx THEN s[k] ELSE s[k + 1]]

\* array.findIndex(s => s.id === studentId); 0 stands for -1
FindIndex(s, studentId) ==
  IF \E k \in 1..Len(s) : s[k].id = studentId
  THEN CHOOSE k \in 1..Len(s) :
         /\ s[k].id = studentId
         /\ \A j \in 1..(k - 1) : s[j].id # studentId
  ELSE 0

\* student.status = "Archived"; student.archivedAt = new Date().toISOString()
Stamp(s, now) ==
  [f \in (DOMAIN s) \cup {"status", "archivedAt"} |->
     IF f = "status" THEN "Archived"
     ELSE IF f = "archivedAt" THEN now
     ELSE s[f]]

----------------------------------------------------------------------------
(* Document store of the hosted server *)

DefaultState == [students |-> <<>>, archived |-> <<>>, settings |-> EmptyMap]

\* the JSON null stored or returned as a document
NullDoc == [null |-> TRUE]
IsNull(d) == "null" \in DOMAIN d

\* state.field || fallback
Field(d, f, fallback) == IF f \in DOMAIN d THEN d[f] ELSE fallback

\* state.field = value
SetField(d, f, value) ==
  [g \in (DOMAIN d) \cup {f} |-> IF g = f THEN value ELSE d[g]]

NoRow == [exists |-> FALSE, data |-> NullDoc]
Row(d) == [exists |-> TRUE, data |-> d]

\* loadState, line 55: data?.data || default
LoadedData(row) == IF IsNull(row.data) THEN DefaultState ELSE row.data

\* the upsert of a row: it replaces the row when it succeeds and leaves the
\* table as it was when it fails; the client reports the failure in its
\* result and the callers of upsert never read that result
Upsert(row, d, ok) == IF ok THEN Row(d) ELSE row

----------------------------------------------------------------------------
(* Handlers of the hosted server: what each computes from the loaded state *)

\* Array.isArray(body.students) ? body.students
\*   : Array.isArray(body.data?.students) ? body.data.students : state.students
\* a body is [direct, nested], each [given, list]; given = it is an array
PostedList(body) ==
  IF body.direct.given THEN body.direct
  ELSE IF body.nested.given THEN body.nested
  ELSE [given |-> FALSE, list |-> <<>>]

\* POST /api/data: state.students = students
DataNext(state, posted) ==
  IF posted.given THEN SetField(state, "students", posted.list) ELSE state

\* POST /api/archive: state.archived = archived
ArchiveListNext(state, posted) ==
  IF posted.given THEN SetField(state, "archived", posted.list) ELSE state

\* the archive handler without its splice: the student stays in students
ArchiveStudentNext_NoSplice(state, idx, now) ==
  SetField(state, "archived",
           <<Stamp(state.students[idx], now)>> \o Field(state, "archived", <<>>))

\* POST /api/archive/student, lines 143-149, for idx found
ArchiveStudentNext(state, idx, now) ==
  LET student == state.students[idx]
      rest == RemoveAt(state.students, idx)
  IN SetField(SetField(state, "students", rest), "archived",
              <<Stamp(student, now)>> \o Field(state, "archived", <<>>))

\* if (state.settings.key) delete state.settings.key
StripKey(settings, key) ==
  IF key \in DOMAIN settings /\ Truthy(settings[key])
  THEN Delete(settings, key)
  ELSE settings

\* POST /api/settings, lines 221-224
SettingsNext(state, patch) ==
  LET merged == Merge(Field(state, "settings", EmptyMap), patch)
  IN SetField(state, "settings",
              StripKey(StripKey(merged, "openaiKey"), "geminiKey"))

----------------------------------------------------------------------------
(* Requests of the hosted server *)

NoList == [given |-> FALSE, list |-> <<>>]

OkReply ==
  [ok |-> TRUE, error |-> "", list |-> <<>>, map |-> EmptyMap, id |-> 0, data |-> ""]
ErrorReply(msg) == [OkReply EXCEPT !.ok = FALSE, !.error = msg]
ListReply(l) == [OkReply EXCEPT !.list = l]
MapReply(m) == [OkReply EXCEPT !.map = m]
IdReply(n) == [OkReply EXCEPT !.id = n]
DataReply(p) == [OkReply EXCEPT !.data = p]

Idle ==
  [kind |-> "none", pc |-> "idle", posted |-> NoList, sid |-> 0,
   patch |-> EmptyMap, payload |-> "", pre |-> NoRow,
   loaded |-> DefaultState, next |-> DefaultState,
   status |-> 0, reply |-> OkReply, alone |-> TRUE]

\* a slot is free when it holds no request or an answered one; a new request
\* takes the first free slot
Free(i) ==
  /\ reqs[i].pc \in {"idle", "done"}
  /\ \A j \in 1..(i - 1) : reqs[j].pc \notin {"idle", "done"}

\* the table after a step of slot i: every other request in flight has no
\* longer run alone, and the record of an answered one is dropped
Touch(i, r) ==
  [j \in Slots |->
     IF j = i THEN r
     ELSE IF reqs[j].pc \in {"idle", "done"} THEN Idle
     ELSE [reqs[j] EXCEPT !.alone = FALSE]]

Begin(kind) == [Idle EXCEPT !.kind = kind, !.pc = "read", !.pre = db]

\* res.status(code).json(body)
Answer(r, code, reply) == [r EXCEPT !.pc = "done", !.status = code, !.reply = reply]

\* the handler from the return of loadState up to its next await or its answer
AfterLoad(r, state, now) ==
  LET l == [r EXCEPT !.loaded = state]
  IN CASE r.kind = "getData" ->
            Answer(l, 200, ListReply(Field(state, "students", <<>>)))
       [] r.kind = "getArchive" ->
            Answer(l, 200, ListReply(Field(state, "archived", <<>>)))
       [] r.kind = "getSettings" ->
            Answer(l, 200, MapReply(Field(state, "settings", EmptyMap)))
       [] r.kind = "postData" ->
            [l EXCEPT !.pc = "save", !.next = DataNext(state, r.posted)]
       [] r.kind = "postArchive" ->
            [l EXCEPT !.pc = "save", !.next = ArchiveListNext(state, r.posted)]
       [] r.kind = "postSettings" ->
            [l EXCEPT !.pc = "save", !.next = SettingsNext(state, r.patch)]
       [] r.kind = "archiveStudent" ->
            LET idx == FindIndex(Field(state, "students", <<>>), r.sid)
            IN IF idx = 0
               THEN Answer(l, 200, OkReply)
               ELSE [l EXCEPT !.pc = "save",
                              !.next = ArchiveStudentNext(state, idx, now)]

\* new Date() is read only by the archive handler; the wall clock it reads
\* is not tied to the order of the requests
Nows(r) == IF r.kind = "archiveStudent" THEN 1..MaxClock ELSE {1}

StoreUnchanged == UNCHANGED <<configured, backups, rt, files, fsLast, chat>>

Start(i, r) ==
  /\ Free(i)
  /\ issued < MaxRequests
  /\ issued' = issued + 1
  /\ reqs' = Touch(i, r)
  /\ UNCHANGED <<db, clock>>
  /\ StoreUnchanged

GetData(i) == Start(i, Begin("getData"))
GetArchive(i) == Start(i, Begin("getArchive"))
GetSettings(i) == Start(i, Begin("getSettings"))

StudentLists == SeqsUpTo(NewStudents, MaxLen)
ArchivedLists == SeqsUpTo({Stamp(s, 1) : s \in NewStudents}, MaxLen)

ListBodies(lists) ==
  {[direct |-> NoList, nested |-> NoList]}
    \cup {[direct |-> [given |-> TRUE, list |-> l], nested |-> NoList] : l \in lists}
    \cup {[direct |-> NoList, nested |-> [given |-> TRUE, list |-> l]] : l \in lists}

PostData(i) ==
  \E body \in ListBodies(StudentLists) :
    Start(i, [Begin("postData") EXCEPT !.posted = PostedList(body)])

PostArchive(i) ==
  \E body \in ListBodies(ArchivedLists) :
    Start(i, [Begin("postArchive") EXCEPT !.posted = PostedList(body)])

\* if (!studentId) return res.status(400)
ArchiveStudent(i) ==
  \E studentId \in 0..MaxId :
    Start(i, IF studentId = 0
             THEN Answer([Begin("archiveStudent") EXCEPT !.sid = studentId],
                         400, ErrorReply("studentId required"))
             ELSE [Begin("archiveStudent") EXCEPT !.sid = studentId])

SettingKeys == {"fee", "theme", "openaiKey", "geminiKey"}
SettingValues == {"", "x"}
Patches ==
  UNION {[ks -> SettingValues] : ks \in {s \in SUBSET SettingKeys : Cardinality(s) <= 1}}

PostSettings(i) ==
  \E patch \in Patches :
    Start(i, [Begin("postSettings") EXCEPT !.patch = patch])

\* loadState, lines 38-55: the select and what follows it without an await.
\* The select fails when the row is absent and may fail when it is present.
LoadRead(i) ==
  /\ reqs[i].pc = "read"
  /\ \E ok \in BOOLEAN, now \in Nows(reqs[i]) :
       IF ~configured
       THEN reqs' = Touch(i, AfterLoad(reqs[i], DefaultState, now))
       ELSE IF ok /\ db.exists
       THEN reqs' = Touch(i, AfterLoad(reqs[i], LoadedData(db), now))
       ELSE reqs' = Touch(i, [reqs[i] EXCEPT !.pc = "seed"])
  /\ UNCHANGED <<db, clock, issued>>
  /\ StoreUnchanged

\* loadState, lines 46-53: any error of the select seeds the default document
LoadSeed(i) ==
  /\ reqs[i].pc = "seed"
  /\ \E ok \in BOOLEAN, now \in Nows(reqs[i]) :
       /\ db' = Upsert(db, DefaultState, ok)
       /\ reqs' = Touch(i, AfterLoad(reqs[i], DefaultState, now))
  /\ UNCHANGED <<clock, issued>>
  /\ StoreUnchanged

\* saveState, lines 58-65, and the answer that follows it
Save(i) ==
  /\ reqs[i].pc = "save"
  /\ \E ok \in BOOLEAN :
       db' = IF configured THEN Upsert(db, reqs[i].next, ok) ELSE db
  /\ reqs' = Touch(i, Answer(reqs[i], 200, OkReply))
  /\ UNCHANGED <<clock, issued>>
  /\ StoreUnchanged

\* POST /api/backup, lines 172-175: the checks before the insert
Payloads == {"", "p", "q"}

PostBackup(i) ==
  \E payload \in Payloads :
    LET r == [Begin("backup") EXCEPT !.payload = payload]
    IN Start(i, IF ~configured
                THEN Answer(r, 400, ErrorReply("Supabase not configured"))
                ELSE IF ~Truthy(payload)
                THEN Answer(r, 400, ErrorReply("data required"))
                ELSE [r EXCEPT !.pc = "insert"])

\* POST /api/backup, lines 177-184: insert a row, answer the id the table gave it
BackupInsert(i) ==
  /\ reqs[i].pc = "insert"
  /\ \E ok \in BOOLEAN :
       IF ok
       THEN /\ backups' = Append(backups, reqs[i].payload)
            /\ reqs' = Touch(i, Answer(reqs[i], 200, IdReply(Len(backups) + 1)))
       ELSE /\ backups' = backups
            /\ reqs' = Touch(i, Answer(reqs[i], 500, ErrorReply("insert failed")))
  /\ UNCHANGED <<configured, db, clock, issued, rt, files, fsLast, chat>>

\* GET /api/restore/:id, line 192
GetRestore(i) ==
  \E id \in 1..MaxRequests :
    LET r == [Begin("restore") EXCEPT !.sid = id]
    IN Start(i, IF ~configured
                THEN Answer(r, 400, ErrorReply("Supabase not configured"))
                ELSE [r EXCEPT !.pc = "select"])

\* GET /api/restore/:id, lines 195-202: the row's data verbatim, or the error
RestoreSelect(i) ==
  /\ reqs[i].pc = "select"
  /\ \E ok \in BOOLEAN :
       reqs' = Touch(i, IF ok /\ reqs[i].sid \in 1..Len(backups)
                        THEN Answer(reqs[i], 200, DataReply(backups[reqs[i].sid]))
                        ELSE Answer(reqs[i], 500, ErrorReply("select failed")))
  /\ UNCHANGED <<db, clock, issued>>
  /\ StoreUnchanged

----------------------------------------------------------------------------
(* Initial states *)

Ids_(l) == {l[k].id : k \in 1..Len(l)}

\* no id occurs both in students and in archived
Disjoint(d) ==
  Ids_(Field(d, "students", <<>>)) \cap Ids_(Field(d, "archived", <<>>)) = {}

\* no id occurs twice in the list
DistinctIds(l) == \A j, k \in 1..Len(l) : l[j].id = l[k].id => j = k

\* documents a deployment holds after earlier posts: the students 1..k in
\* order and at most one archived student, of an id above k
Roster(k) == [j \in 1..k |-> [id |-> j]]

\* and the documents in which one student was posted twice
InitDocs ==
  UNION {{[students |-> Roster(k), archived |-> a, settings |-> EmptyMap] :
            a \in {<<>>} \cup {<<Stamp([id |-> j], 1)>> : j \in (k + 1)..MaxId}} :
         k \in {n \in 0..MaxLen : n <= MaxId}}
    \cup {[students |-> <<s, s>>, archived |-> <<>>, settings |-> EmptyMap] :
            s \in NewStudents}

----------------------------------------------------------------------------
(* POST /api/chat: values *)

\* the values of an upstream error field: absent or empty, an empty array
\* (truthy, and the empty string once new Error() has made a string of it),
\* or a message
ErrorValues == {"", "[]", "quota exceeded"}

\* String(v), as new Error(v) applies it
Str(v) == IF v = "[]" THEN "" ELSE v

\* a || b
Or(a, b) == IF Truthy(a) THEN a ELSE b

\* texts are sequences of characters
Chars == {" ", "a"}
Texts == SeqsUpTo(Chars, MaxText)

RECURSIVE TrimLeft(_)
TrimLeft(t) == IF t # <<>> /\ Head(t) = " " THEN TrimLeft(Tail(t)) ELSE t

RECURSIVE TrimRight(_)
TrimRight(t) ==
  IF t # <<>> /\ t[Len(t)] = " " THEN TrimRight(SubSeq(t, 1, Len(t) - 1)) ELSE t

\* String.prototype.trim
Trim(t) == TrimRight(TrimLeft(t))

\* callGemini, line 166
Models == <<"gemini-2.0-flash", "gemini-2.5-flash", "gemini-2.0-flash-lite-001">>

NoChatReply == [text |-> <<>>, provider |-> "", modelUsed |-> "", error |-> ""]

\* req.body.message: absent or empty, or a text
Messages == {"", "hello"}

\* an entry of req.body.history: null, or a turn of some role
NullEntry == [null |-> TRUE]
HistoryEntries ==
  {NullEntry} \cup {[role |-> r, text |-> "hi"] : r \in {"user", "model"}}

\* req.body.history: an array of entries, or anything else
NoHistory == [isArray |-> FALSE, items |-> <<>>]
Histories ==
  {NoHistory} \cup {[isArray |-> TRUE, items |-> h] :
                      h \in SeqsUpTo(HistoryEntries, MaxHistory)}

ChatIdle(server, openaiKey, geminiKey) ==
  [server |-> server, openaiKey |-> openaiKey, geminiKey |-> geminiKey,
   pc |-> "idle", message |-> "", history |-> NoHistory,
   primary |-> "none", e1 |-> "",
   idx |-> 0, tried |-> <<>>, outs |-> <<>>, lastErr |-> "",
   status |-> 0, reply |-> NoChatReply]

RtIdle ==
  [pc |-> "idle", saved |-> FALSE, d |-> NullDoc, before |-> NoRow,
   result |-> NullDoc]

\* a file that does not exist
Missing == [missing |-> TRUE]

\* a file of 0 bytes: what fs.writeFileSync leaves when it has opened the
\* file, which truncates it, and the write then fails
Empty == [empty |-> TRUE]

NoFiles == [data |-> Missing, archive |-> Missing, backups |-> EmptyMap]

FsNone ==
  [kind |-> "none", status |-> 0, wrote |-> FALSE, file |-> 0,
   content |-> Missing, before |-> EmptyMap, body |-> Missing]

InitRest ==
  /\ rt = RtIdle
  /\ files = NoFiles
  /\ fsLast = FsNone
  /\ chat = ChatIdle("file", "", "")

Init ==
  /\ configured \in BOOLEAN
  /\ db \in {NoRow} \cup {Row(d) : d \in InitDocs}
  /\ (~configured => db = NoRow)
  /\ backups = <<>>
  /\ reqs = [i \in Slots |-> Idle]
  /\ clock = 1
  /\ issued = 0
  /\ InitRest

Next ==
  \E i \in Slots :
    \/ GetData(i)
    \/ GetArchive(i)
    \/ GetSettings(i)
    \/ PostData(i)
    \/ PostArchive(i)
    \/ ArchiveStudent(i)
    \/ PostSettings(i)
    \/ PostBackup(i)
    \/ GetRestore(i)
    \/ LoadRead(i)
    \/ LoadSeed(i)
    \/ Save(i)
    \/ BackupInsert(i)
    \/ RestoreSelect(i)

Spec == Init /\ [][Next]_vars

\* the archive endpoint alone
NextArchive ==
  \E i \in Slots :
    \/ ArchiveStudent(i)
    \/ LoadRead(i)
    \/ LoadSeed(i)
    \/ Save(i)

SpecArchive == Init /\ [][NextArchive]_vars

----------------------------------------------------------------------------
(* Claims about the document endpoints of the hosted server *)

\* the document a reader of the row sees
Doc(row) == IF row.exists THEN LoadedData(row) ELSE DefaultState

\* request r was answered 200 and no other request took a step since it began
AnsweredAlone(r, kind) ==
  /\ r.kind = kind
  /\ r.pc = "done"
  /\ r.status = 200
  /\ r.alone

\* the archive request r found its student in the document it loaded
Found(r) == FindIndex(Field(r.loaded, "students", <<>>), r.sid) # 0

\* C1: after POST /api/archive/student {studentId: s.id} answered {ok:true}
\* with no other request interleaved, the stored document has lost the first
\* entry of that id from students, has s stamped Archived with a timestamp at
\* the head of archived, and keeps all other entries in their order.
C1_ArchiveMovesStudent ==
  \A i \in Slots :
    LET r == reqs[i]
        idx == FindIndex(Field(r.loaded, "students", <<>>), r.sid)
        s == r.loaded.students[idx]
        now == Doc(db).archived[1].archivedAt
    IN (AnsweredAlone(r, "archiveStudent") /\ Found(r)) =>
         /\ Doc(db).students = RemoveAt(r.loaded.students, idx)
         /\ Len(Doc(db).archived) = Len(r.loaded.archived) + 1
         /\ "archivedAt" \in DOMAIN Doc(db).archived[1]
         /\ now \in 1..MaxClock
         /\ Doc(db).archived[1] = Stamp(s, now)
         /\ Tail(Doc(db).archived) = r.loaded.archived

\* C2: POST /api/archive/student with an id that is not in students of the
\* stored document answers {ok:true} and leaves students, archived and
\* settings of the stored document as they were.
C2_ArchiveUnknownIsNoOp ==
  \A i \in Slots :
    LET r == reqs[i]
    IN (/\ r.kind = "archiveStudent"
        /\ r.pc = "done"
        /\ r.alone
        /\ r.sid # 0
        /\ FindIndex(Doc(r.pre).students, r.sid) = 0) =>
         /\ r.status = 200
         /\ Doc(db) = Doc(r.pre)

\* C3: in every state no student id occurs both in students and in archived
\* of the stored document, whatever POST /api/data, POST /api/archive and
\* POST /api/archive/student requests ran and however they interleaved.
C3_AlwaysDisjoint == Disjoint(Doc(db))

\* students and archived of d share no id and the ids of students are distinct
Separate(d) ==
  /\ DistinctIds(Field(d, "students", <<>>))
  /\ Disjoint(d)

\* the stored document is separate, and so is every document a request in
\* flight is about to save
AllSeparate ==
  /\ Separate(Doc(db))
  /\ \A i \in Slots : reqs[i].pc = "save" => Separate(reqs[i].next)

\* C3 amended: once students and archived of the stored document share no id
\* and the students have distinct ids, no sequence and no interleaving of
\* POST /api/archive/student requests puts an id in both lists.
C3_SeparateUnderArchive == [][AllSeparate => AllSeparate']_vars

\* an archive request that ran interleaved with another has moved its
\* student out of a separate document, and students are left
C3_Witness ==
  /\ \E i \in Slots :
       /\ reqs[i].kind = "archiveStudent"
       /\ reqs[i].pc = "done"
       /\ Found(reqs[i])
       /\ Separate(reqs[i].loaded)
       /\ ~reqs[i].alone
       /\ db.exists
       /\ db.data = reqs[i].next
  /\ AllSeparate
  /\ Len(Doc(db).archived) >= 1
  /\ Len(Doc(db).students) >= 1

HasKey(m) == "openaiKey" \in DOMAIN m \/ "geminiKey" \in DOMAIN m

\* C4: the persisted settings and the result of every GET /api/settings hold
\* neither an openaiKey nor a geminiKey field, whatever was posted.
C4_NoKeyField ==
  /\ ~HasKey(Doc(db).settings)
  /\ \A i \in Slots :
       (reqs[i].kind = "getSettings" /\ reqs[i].pc = "done") =>
         ~HasKey(reqs[i].reply.map)

----------------------------------------------------------------------------
(* loadState and saveState called back to back, with no other writer *)

DocFields == {"students", "archived", "settings"}

\* the documents handed to saveState: any subset of the three fields, or null
DocInputs ==
  {NullDoc} \cup
  {[f \in fs |-> d[f]] : fs \in SUBSET DocFields,
                         d \in InitDocs \cup {DefaultState}}

\* saveState(d), lines 58-65
RtSave ==
  /\ rt.pc = "idle"
  /\ \E d \in DocInputs, ok \in BOOLEAN :
       /\ db' = IF configured THEN Upsert(db, d, ok) ELSE db
       /\ rt' = [rt EXCEPT !.pc = "saved", !.saved = TRUE, !.d = d]
  /\ UNCHANGED <<configured, backups, reqs, clock, issued, files, fsLast, chat>>

\* loadState(), lines 38-55: the select
RtLoadRead ==
  /\ rt.pc \in {"idle", "saved"}
  /\ \E ok \in BOOLEAN :
       rt' = IF ~configured
             THEN [rt EXCEPT !.pc = "loaded", !.before = db, !.result = DefaultState]
             ELSE IF ok /\ db.exists
             THEN [rt EXCEPT !.pc = "loaded", !.before = db, !.result = LoadedData(db)]
             ELSE [rt EXCEPT !.pc = "seed", !.before = db]
  /\ UNCHANGED <<configured, db, backups, reqs, clock, issued, files, fsLast, chat>>

\* loadState(), lines 46-53: the seeding upsert after a failed select
RtLoadSeed ==
  /\ rt.pc = "seed"
  /\ \E ok \in BOOLEAN : db' = Upsert(db, DefaultState, ok)
  /\ rt' = [rt EXCEPT !.pc = "loaded", !.result = DefaultState]
  /\ UNCHANGED <<configured, backups, reqs, clock, issued, files, fsLast, chat>>

InitStore ==
  /\ configured \in BOOLEAN
  /\ db \in {NoRow} \cup {Row(d) : d \in InitDocs}
  /\ (~configured => db = NoRow)
  /\ backups = <<>>
  /\ reqs = [i \in Slots |-> Idle]
  /\ clock = 1
  /\ issued = 0
  /\ InitRest

NextStore == RtSave \/ RtLoadRead \/ RtLoadSeed

SpecStore == InitStore /\ [][NextStore]_vars

\* C8: saveState(d) followed at once by loadState(), with no other writer,
\* returns a document equal to d, for every d and every configuration in
\* which saveState returned normally.
C8_SaveLoadRoundTrip ==
  (rt.pc = "loaded" /\ rt.saved) => rt.result = rt.d

\* C9: when a document is persisted, loadState() returns that document and
\* leaves the row as it was, whether or not its select succeeds.
C9_LoadKeepsPersisted ==
  (rt.pc = "loaded" /\ rt.before.exists) =>
    /\ db = rt.before
    /\ rt.result = LoadedData(rt.before)

----------------------------------------------------------------------------
(* The file server: data.json, archive.json and the backups directory.     *)
(* Its handlers use the synchronous fs calls, so each runs in one step.    *)

\* readJSONFile, lines 43-52: the fallback when the file is absent, when it
\* is empty (raw || JSON.stringify(fallback)), or when the read or the parse
\* throws
ReadJSONFile(file, fallback, ok) ==
  IF "missing" \in DOMAIN file \/ "empty" \in DOMAIN file \/ ~ok
  THEN fallback ELSE file

\* fs.writeFileSync, line 55: it writes the whole text; or it fails to open
\* the file; or it opens the file, truncating it, and fails to write; or it
\* writes the whole text and throws when closing the file
WriteOutcomes == {"written", "notOpened", "truncated", "notClosed"}

\* writeJSONFile, lines 53-61: the file after the call
WrittenFile(file, data, out) ==
  IF out \in {"written", "notClosed"} THEN data
  ELSE IF out = "notOpened" THEN file
  ELSE Empty

\* writeJSONFile, lines 56 and 59: its return value
WriteResult(out) == out = "written"

\* new Date().toISOString().replace(/[:.]/g, "-").slice(0, 19): the clock
\* cut to whole seconds, the part of the backup's file name that varies
BackupStamp(now) == now \div TicksPerSecond

\* createBackup, line 71: the value it returns, the file it named, whatever
\* writeJSONFile on line 69 returned
CreateBackupResult(backupFile, wrote) == backupFile

FsDataBodies == {EmptyMap} \cup {[students |-> l] : l \in StudentLists}
FsArchiveBodies == {EmptyMap} \cup {[archived |-> l] : l \in ArchivedLists}

FsUnchanged == UNCHANGED <<configured, db, backups, reqs, rt, chat>>

FsAnswer(kind, code) == [FsNone EXCEPT !.kind = kind, !.status = code]

FsBudget ==
  /\ issued < MaxRequests
  /\ issued' = issued + 1

\* GET /api/data, line 79
FsGetData ==
  /\ FsBudget
  /\ \E ok \in BOOLEAN :
       fsLast' = [FsAnswer("getData", 200) EXCEPT
                    !.body = ReadJSONFile(files.data, [students |-> <<>>], ok)]
  /\ UNCHANGED <<files, clock>>
  /\ FsUnchanged

\* POST /api/data, lines 80-84
FsPostData ==
  /\ FsBudget
  /\ \E body \in FsDataBodies, out \in WriteOutcomes :
       /\ files' = [files EXCEPT !.data = WrittenFile(files.data, body, out)]
       /\ fsLast' = [FsAnswer("postData", IF WriteResult(out) THEN 200 ELSE 500)
                       EXCEPT !.body = body, !.wrote = WriteResult(out)]
  /\ UNCHANGED clock
  /\ FsUnchanged

\* GET /api/archive, line 86
FsGetArchive ==
  /\ FsBudget
  /\ \E ok \in BOOLEAN :
       fsLast' = [FsAnswer("getArchive", 200) EXCEPT
                    !.body = ReadJSONFile(files.archive, [archived |-> <<>>], ok)]
  /\ UNCHANGED <<files, clock>>
  /\ FsUnchanged

\* POST /api/archive, lines 87-91
FsPostArchive ==
  /\ FsBudget
  /\ \E body \in FsArchiveBodies, out \in WriteOutcomes :
       /\ files' = [files EXCEPT !.archive = WrittenFile(files.archive, body, out)]
       /\ fsLast' = [FsAnswer("postArchive", IF WriteResult(out) THEN 200 ELSE 500)
                       EXCEPT !.body = body, !.wrote = WriteResult(out)]
  /\ UNCHANGED clock
  /\ FsUnchanged

\* POST /api/backup, lines 94-98, with createBackup, lines 62-76
FsBackup ==
  /\ FsBudget
  /\ \E now \in clock..MaxTicks, okData \in BOOLEAN, okArchive \in BOOLEAN,
        out \in WriteOutcomes :
       \E now2 \in now..MaxTicks :
         LET data == ReadJSONFile(files.data, [students |-> <<>>], okData)
             archive == ReadJSONFile(files.archive, [archived |-> <<>>], okArchive)
             backupFile == BackupStamp(now)
             backupData == [timestamp |-> now2, data |-> data, archive |-> archive]
             old == IF backupFile \in DOMAIN files.backups
                    THEN files.backups[backupFile] ELSE Missing
             new == WrittenFile(old, backupData, out)
             returned == CreateBackupResult(backupFile, WriteResult(out))
         IN /\ clock' = now2
            /\ files' = [files EXCEPT !.backups =
                           IF "missing" \in DOMAIN new THEN @
                           ELSE [f \in (DOMAIN @) \cup {backupFile} |->
                                   IF f = backupFile THEN new ELSE @[f]]]
            /\ fsLast' = [FsAnswer("backup", 200) EXCEPT
                            !.file = returned, !.content = backupData,
                            !.wrote = WriteResult(out), !.before = files.backups]
  /\ FsUnchanged

\* GET /api/settings, line 106
FsGetSettings ==
  /\ FsBudget
  /\ fsLast' = FsAnswer("getSettings", 200)
  /\ UNCHANGED <<files, clock>>
  /\ FsUnchanged

\* POST /api/settings, line 107
FsPostSettings ==
  /\ FsBudget
  /\ \E patch \in Patches : fsLast' = FsAnswer("postSettings", 200)
  /\ UNCHANGED <<files, clock>>
  /\ FsUnchanged

InitFile ==
  /\ configured = FALSE
  /\ db = NoRow
  /\ backups = <<>>
  /\ reqs = [i \in Slots |-> Idle]
  /\ clock = 1
  /\ issued = 0
  /\ rt = RtIdle
  /\ files \in {[NoFiles EXCEPT !.data = d] : d \in {Missing} \cup FsDataBodies}
  /\ fsLast = FsNone
  /\ chat = ChatIdle("file", "", "")

NextFile ==
  \/ FsGetData
  \/ FsPostData
  \/ FsGetArchive
  \/ FsPostArchive
  \/ FsBackup
  \/ FsGetSettings
  \/ FsPostSettings

SpecFile == InitFile /\ [][NextFile]_vars

\* C6: a POST /api/backup that reports success and whose writeJSONFile
\* returned true
\* added one record to the backups, under an identifier no earlier record
\* has, and left every earlier record as it was.
C6_BackupAddsRecord ==
  (fsLast.kind = "backup" /\ fsLast.status = 200 /\ fsLast.wrote) =>
    /\ Cardinality(DOMAIN files.backups) = Cardinality(DOMAIN fsLast.before) + 1
    /\ fsLast.file \notin DOMAIN fsLast.before
    /\ \A f \in DOMAIN fsLast.before : files.backups[f] = fsLast.before[f]

\* C7: a mutating request is answered with success only when its write took
\* effect: after POST /api/backup answered {ok: true, backupFile} the file
\* it names exists and holds the backup; after POST /api/data or
\* POST /api/archive answered {ok: true} the file holds the posted body.
C7_SuccessMeansWritten ==
  /\ (fsLast.kind = "backup" /\ fsLast.status = 200) =>
       /\ fsLast.file \in DOMAIN files.backups
       /\ files.backups[fsLast.file] = fsLast.content
  /\ (fsLast.kind = "postData" /\ fsLast.status = 200) =>
       files.data = fsLast.body
  /\ (fsLast.kind = "postArchive" /\ fsLast.status = 200) =>
       files.archive = fsLast.body

----------------------------------------------------------------------------
(* POST /api/chat *)

ChatUnchanged ==
  UNCHANGED <<configured, db, backups, reqs, clock, issued, rt, files, fsLast>>

\* res.status(code).json(body)
ChatAnswer(c, code, reply) ==
  [c EXCEPT !.pc = "done", !.status = code, !.reply = reply]

\* e.message || "Chat failed", server.js line 228 and part_000 line 282
ChatError(message) == Or(message, "Chat failed")

ChatFailure(c, message) ==
  ChatAnswer(c, 500, [NoChatReply EXCEPT !.error = ChatError(message)])

\* server.js line 221: if (GEMINI_API_KEY)
UseFallback(geminiKey) == Truthy(geminiKey)

\* server.js line 200: if (txt.trim())
HasText(txt) == Trim(txt) # <<>>

\* POST /api/chat, lines 212-213 of server.js and 276-277 of part_000
ChatPost ==
  /\ chat.pc \in {"idle", "done"}
  /\ issued < MaxRequests
  /\ issued' = issued + 1
  /\ \E message \in Messages, history \in Histories :
       LET c == [ChatIdle(chat.server, chat.openaiKey, chat.geminiKey)
                   EXCEPT !.message = message, !.history = history]
       IN chat' = IF ~Truthy(message)
                  THEN ChatAnswer(c, 400,
                         [NoChatReply EXCEPT !.error = "message is required"])
                  ELSE [c EXCEPT !.pc = "openai"]
  /\ UNCHANGED <<configured, db, backups, reqs, clock, rt, files, fsLast>>

\* what the OpenAI call can end in: a completion with some content, an HTTP
\* error whose body carries some error.message, or a failed fetch
OpenAIOutcomes ==
  {[kind |-> "ok", text |-> t, msg |-> ""] : t \in Texts}
    \cup {[kind |-> "http", text |-> <<>>, msg |-> m] : m \in ErrorValues}
    \cup {[kind |-> "network", text |-> <<>>, msg |-> "fetch failed"]}

\* Array.isArray(history) ? history : [], server.js lines 119 and 155
HistoryItems(history) == IF history.isArray THEN history.items ELSE <<>>

\* the TypeError of msg.role when msg is null
NullRoleError == "Cannot read properties of null (reading 'role')"

\* callGemini, lines 155-158: the map over the history reads msg.role of
\* every entry, in order, and throws at a null one; "" when it throws
\* nothing. (buildMessages, line 123, skips such an entry: if (!h) return
\* null, so the primary's request is built from any history.)
RECURSIVE ContentsError(_)
ContentsError(items) ==
  IF items = <<>> THEN ""
  ELSE IF Head(items) = NullEntry THEN NullRoleError
  ELSE ContentsError(Tail(items))

\* callGemini, lines 153-159: the message of the TypeError thrown while the
\* request is built, before any model is tried; "" when none is thrown.
\* (Line 153 cannot throw here: the handler calls it with the key set.)
GeminiBuildError(history) == ContentsError(HistoryItems(history))

\* callOpenAI of server.js, lines 133-150: the message of the error it throws
OpenAIErrorFile(c, out) ==
  IF ~Truthy(c.openaiKey) THEN "OPENAI_API_KEY not set on server"
  ELSE IF out.kind = "http" THEN Str(Or(out.msg, "OpenAI error HTTP"))
  ELSE out.msg

\* server.js lines 219-226: the catch of the primary's failure; callGemini
\* either throws while it builds its request, which the outer catch answers,
\* or enters the loop over the models
AfterPrimaryFailure(c, e1) ==
  LET f == [c EXCEPT !.primary = "failed", !.e1 = e1]
      b == GeminiBuildError(c.history)
  IN IF UseFallback(c.geminiKey)
     THEN IF b # "" THEN ChatFailure(f, b)
          ELSE [f EXCEPT !.pc = "gemini", !.idx = 1]
     ELSE ChatFailure(f, e1)

\* server.js lines 216-218 with callOpenAI
CallOpenAI ==
  /\ chat.pc = "openai"
  /\ chat.server = "file"
  /\ \E out \in OpenAIOutcomes :
       chat' = IF Truthy(chat.openaiKey) /\ out.kind = "ok"
               THEN ChatAnswer([chat EXCEPT !.primary = "ok"], 200,
                      [NoChatReply EXCEPT !.text = Trim(out.text),
                                          !.provider = "openai"])
               ELSE AfterPrimaryFailure(chat, OpenAIErrorFile(chat, out))
  /\ UNCHANGED issued
  /\ ChatUnchanged

\* what one Gemini model can end in: status 200 with some text in the first
\* candidate, or a rejection carrying json.error.message and json.error
GeminiOutcomes ==
  {[kind |-> "ok", text |-> t, msg |-> "", err |-> ""] : t \in Texts}
    \cup {[kind |-> "reject", text |-> <<>>, msg |-> m, err |-> e] :
            m \in ErrorValues, e \in {"", "Parse Error"}}

EmptyResponse ==
  <<"Gemini empty response (gemini-2.0-flash)",
    "Gemini empty response (gemini-2.5-flash)",
    "Gemini empty response (gemini-2.0-flash-lite-001)">>

GeminiFailed ==
  <<"Gemini failed (gemini-2.0-flash)",
    "Gemini failed (gemini-2.5-flash)",
    "Gemini failed (gemini-2.0-flash-lite-001)">>

\* callGemini, lines 201 and 203: the error kept for model number k
ModelError(out, k) ==
  IF out.kind = "ok" THEN EmptyResponse[k]
  ELSE Str(Or(Or(out.msg, out.err), GeminiFailed[k]))

\* callGemini, lines 196-206: one turn of the loop over the models, and the
\* answer of the endpoint when the loop returns or throws
TryModel ==
  /\ chat.pc = "gemini"
  /\ chat.idx \in 1..Len(Models)
  /\ \E out \in GeminiOutcomes :
       LET k == chat.idx
           t == [chat EXCEPT !.tried = Append(@, Models[k]),
                             !.outs = Append(@, out)]
       IN chat' =
            IF out.kind = "ok" /\ HasText(out.text)
            THEN ChatAnswer(t, 200,
                   [NoChatReply EXCEPT !.text = Trim(out.text),
                                       !.provider = "gemini",
                                       !.modelUsed = Models[k]])
            ELSE IF k = Len(Models)
            THEN ChatFailure([t EXCEPT !.lastErr = ModelError(out, k)],
                             ModelError(out, k))
            ELSE [t EXCEPT !.lastErr = ModelError(out, k), !.idx = k + 1]
  /\ UNCHANGED issued
  /\ ChatUnchanged

\* callOpenAI of part_000, lines 240-272: the message of the error it throws
OpenAIErrorHosted(c, out) ==
  IF ~Truthy(c.openaiKey) THEN "Missing OPENAI_API_KEY"
  ELSE IF out.kind = "http" THEN "OpenAI error"
  ELSE out.msg

\* part_000 lines 279-283: the only provider, no fallback
CallOpenAIHosted ==
  /\ chat.pc = "openai"
  /\ chat.server = "hosted"
  /\ \E out \in OpenAIOutcomes :
       chat' = IF Truthy(chat.openaiKey) /\ out.kind = "ok"
               THEN ChatAnswer([chat EXCEPT !.primary = "ok"], 200,
                      [NoChatReply EXCEPT !.text = out.text,
                                          !.provider = "openai"])
               ELSE ChatFailure([chat EXCEPT !.primary = "failed",
                                             !.e1 = OpenAIErrorHosted(chat, out)],
                                OpenAIErrorHosted(chat, out))
  /\ UNCHANGED issued
  /\ ChatUnchanged

\* the environment of the process: OPENAI_API_KEY and GEMINI_API_KEY; the
\* hosted server has no secondary provider
InitChat ==
  /\ configured = FALSE
  /\ db = NoRow
  /\ backups = <<>>
  /\ reqs = [i \in Slots |-> Idle]
  /\ clock = 1
  /\ issued = 0
  /\ rt = RtIdle
  /\ files = NoFiles
  /\ fsLast = FsNone
  /\ chat \in {ChatIdle("file", o, g) : o \in {"", "sk"}, g \in {"", "gk"}}
                \cup {ChatIdle("hosted", o, "") : o \in {"", "sk"}}

NextChat == ChatPost \/ CallOpenAI \/ TryModel \/ CallOpenAIHosted

SpecChat == InitChat /\ [][NextChat]_vars

ChatDone == chat.pc = "done" /\ Truthy(chat.message)

SecondaryConfigured == chat.server = "file" /\ Truthy(chat.geminiKey)

\* C5: for a non-empty message: an answer tagged with the primary provider is
\* given only when the primary call succeeded; when the primary fails and a
\* secondary key is configured the secondary is attempted and a success names
\* the secondary; when the primary fails and the secondary is unconfigured or
\* fails too, the answer is an error status with a non-empty message.
C5_ChatFallback ==
  ChatDone =>
    /\ chat.status \in {200, 500}
    /\ (chat.status = 200 /\ chat.reply.provider = "openai") => chat.primary = "ok"
    /\ chat.primary = "ok" => (chat.status = 200 /\ chat.reply.provider = "openai")
    /\ (chat.primary = "failed" /\ SecondaryConfigured) =>
         /\ Len(chat.tried) >= 1
         /\ chat.status = 200 => chat.reply.provider = "gemini"
    /\ (chat.primary = "failed" /\ ~SecondaryConfigured) =>
         /\ chat.tried = <<>>
         /\ chat.status = 500
    /\ (~Truthy(chat.openaiKey) /\ ~Truthy(chat.geminiKey)) => chat.status = 500
    /\ chat.status = 500 => chat.reply.error # ""

\* the outcome of try number k was a failure or a text that trims to nothing
Failed(k) ==
  chat.outs[k].kind = "reject" \/ Trim(chat.outs[k].text) = <<>>

\* C10: the secondary tries its models in the order of the list, each at most
\* once; it returns at the first model whose text is non-empty after
\* trimming, tagged with that model; a model that fails or yields empty text
\* is followed by the next; it fails only when every model has failed, with
\* the error of the last model tried.
C10_ModelsInOrder ==
  /\ Len(chat.tried) <= Len(Models)
  /\ Len(chat.outs) = Len(chat.tried)
  /\ \A k \in 1..Len(chat.tried) : chat.tried[k] = Models[k]
  /\ \A k \in 1..(Len(chat.tried) - 1) : Failed(k)
  /\ (chat.pc = "gemini") =>
       /\ chat.idx = Len(chat.tried) + 1
       /\ \A k \in 1..Len(chat.tried) : Failed(k)
  /\ (chat.pc = "done" /\ chat.primary = "failed" /\ SecondaryConfigured) =>
       LET n == Len(chat.tried)
       IN /\ chat.status = 200 =>
               /\ n >= 1
               /\ ~Failed(n)
               /\ chat.reply.provider = "gemini"
               /\ chat.reply.modelUsed = Models[n]
               /\ chat.reply.text = Trim(chat.outs[n].text)
               /\ chat.reply.text # <<>>
          /\ chat.status # 200 =>
               /\ n = Len(Models)
               /\ Failed(n)
               /\ chat.status = 500
               /\ chat.reply.error = ChatError(ModelError(chat.outs[n], n))

====
